---- MODULE Spec2Model ----
(***************************************************************************)
(* A model of airscan-simple.py: one run of the eSCL scan client.          *)
(* The run fetches the scanner capabilities, resolves the scan source,     *)
(* posts the scan job (retrying while the device answers 503) and fetches  *)
(* the resulting documents until the device answers 404.                   *)
(*                                                                         *)
(* Python strings are modelled as sequences of pieces (single characters   *)
(* where the code looks inside the string, larger chunks otherwise) and    *)
(* string concatenation as \o.                                             *)
(***************************************************************************)
EXTENDS Integers, Sequences, FiniteSets, TLC

VARIABLES
    pc,            \* position of the run
    args,          \* the parsed command line: url, source, resolution, format
    scan_caps,     \* the capabilities document: the key paths present in it
    have_flatbed, have_adf, have_duplex,
    flatbed, adf, duplex, multifile,
    source,        \* 'Feeder' or 'Platen' once resolved
    post_url,      \* post_scanrequest's post_url
    post_data,     \* post_scanrequest's post_data
    count,         \* post_scanrequest's count
    result,        \* what post_scanrequest returned
    outfile,       \* the output path handed to fetch_result
    fcount,        \* fetch_result's count
    filename,      \* fetch_result's filename
    stdout,        \* the lines printed so far
    raised,        \* the uncaught exception that ended the run, if any
    exitStatus,    \* {} while the run goes on, then {the process exit status}
    requests,      \* the HTTP traffic: numbers of requests, last POST, GET urls
    sleeps,        \* number of time.sleep(1) calls made
    files,         \* the files written by urlretrieve, in order
    device,        \* what the device did: the number of 503 answers to the POST,
                   \* the Location header it gave, the documents it served,
                   \* the last status it answered a POST and a GET with
    call           \* a function applied on its own: its name, arguments, result

vars == <<pc, args, scan_caps, have_flatbed, have_adf, have_duplex, flatbed, adf,
          duplex, multifile, source, post_url, post_data, count, result, outfile,
          fcount, filename, stdout,
          raised, exitStatus, requests, sleeps, files, device, call>>

(***************************************************************************)
(* Bounds of the model.                                                    *)
(***************************************************************************)
MaxPages == 3

\* The longest output path made of PathChars.
MaxLen == 4

\* The largest page counter a file name is derived for.
MaxCount == 12

(***************************************************************************)
(* Program constants.                                                      *)
(***************************************************************************)
RetryLimit == 100

\* Python's None; never a piece of a modelled string.
NoneVal == <<"None">>

\* A local variable that has not been assigned yet.
Unset == <<"unset">>

URL == <<"http://brother/eSCL">>

Digits == <<"0", "1", "2", "3", "4", "5", "6", "7", "8", "9">>

\* str(n) for n >= 0
RECURSIVE Str(_)
Str(n) == IF n < 10 THEN <<Digits[n + 1]>>
          ELSE Str(n \div 10) \o <<Digits[(n % 10) + 1]>>

\* s.split(sep) for a one-character separator
RECURSIVE Split(_, _)
Split(s, sep) ==
    IF \A i \in 1..Len(s) : s[i] # sep
    THEN <<s>>
    ELSE LET i == CHOOSE j \in 1..Len(s) :
                      s[j] = sep /\ \A k \in 1..(j - 1) : s[k] # sep
         IN <<SubSeq(s, 1, i - 1)>> \o Split(SubSeq(s, i + 1, Len(s)), sep)

\* sep.join(list)
RECURSIVE Join(_, _)
Join(list, sep) ==
    IF Len(list) = 0 THEN <<>>
    ELSE IF Len(list) = 1 THEN list[1]
    ELSE list[1] \o <<sep>> \o Join(Tail(list), sep)

Last(s) == s[Len(s)]

Front(s) == SubSeq(s, 1, Len(s) - 1)

(***************************************************************************)
(* build_scansettings_xml: the document as the sequence of its pieces.     *)
(***************************************************************************)
\* build_scansettings_xml with the Y resolution fixed at 300.
build_scansettings_xml_FixedYResolution(src, resolution, docformat, colormode, extformat) ==
    <<"<?xml version=\"1.0\" encoding=\"UTF-8\"?>">> \o
    <<"<scan:ScanSettings xmlns:pwg=\"http://www.pwg.org/schemas/2010/12/sm\" ">> \o
    <<"xmlns:scan=\"http://schemas.hp.com/imaging/escl/2011/05/03\">">> \o
    <<"<pwg:Version>", "2.0", "</pwg:Version>">> \o
    <<"<pwg:InputSource>">> \o src \o <<"</pwg:InputSource>">> \o
    <<"<pwg:ScanRegions>">> \o
    <<"<pwg:ScanRegion>">> \o
    <<"<pwg:ContentRegionUnits>", "escl:ThreeHundredthsOfInches",
      "</pwg:ContentRegionUnits>">> \o
    <<"<pwg:Height>", "3507", "</pwg:Height>">> \o
    <<"<pwg:Width>", "2550", "</pwg:Width>">> \o
    <<"<pwg:XOffset>", "0", "</pwg:XOffset>">> \o
    <<"<pwg:YOffset>", "0", "</pwg:YOffset>">> \o
    <<"</pwg:ScanRegion>">> \o
    <<"</pwg:ScanRegions>">> \o
    <<"<pwg:DocumentFormat>">> \o docformat \o <<"</pwg:DocumentFormat>">> \o
    (IF extformat
     THEN <<"<pwg:DocumentFormatExt>">> \o docformat \o <<"</pwg:DocumentFormatExt>">>
     ELSE <<>>) \o
    <<"<scan:ColorMode>">> \o colormode \o <<"</scan:ColorMode>">> \o
    <<"<scan:XResolution>">> \o resolution \o <<"</scan:XResolution>">> \o
    <<"<scan:YResolution>">> \o <<"300">> \o <<"</scan:YResolution>">> \o
    <<"</scan:ScanSettings>">>

\* build_scansettings_xml with height and width taken for each other.
build_scansettings_xml_SwappedRegion(src, resolution, docformat, colormode, extformat) ==
    <<"<?xml version=\"1.0\" encoding=\"UTF-8\"?>">> \o
    <<"<scan:ScanSettings xmlns:pwg=\"http://www.pwg.org/schemas/2010/12/sm\" ">> \o
    <<"xmlns:scan=\"http://schemas.hp.com/imaging/escl/2011/05/03\">">> \o
    <<"<pwg:Version>", "2.0", "</pwg:Version>">> \o
    <<"<pwg:InputSource>">> \o src \o <<"</pwg:InputSource>">> \o
    <<"<pwg:ScanRegions>">> \o
    <<"<pwg:ScanRegion>">> \o
    <<"<pwg:ContentRegionUnits>", "escl:ThreeHundredthsOfInches",
      "</pwg:ContentRegionUnits>">> \o
    <<"<pwg:Height>", "2550", "</pwg:Height>">> \o
    <<"<pwg:Width>", "3507", "</pwg:Width>">> \o
    <<"<pwg:XOffset>", "0", "</pwg:XOffset>">> \o
    <<"<pwg:YOffset>", "0", "</pwg:YOffset>">> \o
    <<"</pwg:ScanRegion>">> \o
    <<"</pwg:ScanRegions>">> \o
    <<"<pwg:DocumentFormat>">> \o docformat \o <<"</pwg:DocumentFormat>">> \o
    (IF extformat
     THEN <<"<pwg:DocumentFormatExt>">> \o docformat \o <<"</pwg:DocumentFormatExt>">>
     ELSE <<>>) \o
    <<"<scan:ColorMode>">> \o colormode \o <<"</scan:ColorMode>">> \o
    <<"<scan:XResolution>">> \o resolution \o <<"</scan:XResolution>">> \o
    <<"<scan:YResolution>">> \o resolution \o <<"</scan:YResolution>">> \o
    <<"</scan:ScanSettings>">>

build_scansettings_xml(src, resolution, docformat, colormode, extformat) ==
    <<"<?xml version=\"1.0\" encoding=\"UTF-8\"?>">> \o
    <<"<scan:ScanSettings xmlns:pwg=\"http://www.pwg.org/schemas/2010/12/sm\" ">> \o
    <<"xmlns:scan=\"http://schemas.hp.com/imaging/escl/2011/05/03\">">> \o
    <<"<pwg:Version>", "2.0", "</pwg:Version>">> \o
    <<"<pwg:InputSource>">> \o src \o <<"</pwg:InputSource>">> \o
    <<"<pwg:ScanRegions>">> \o
    <<"<pwg:ScanRegion>">> \o
    <<"<pwg:ContentRegionUnits>", "escl:ThreeHundredthsOfInches",
      "</pwg:ContentRegionUnits>">> \o
    <<"<pwg:Height>", "3507", "</pwg:Height>">> \o
    <<"<pwg:Width>", "2550", "</pwg:Width>">> \o
    <<"<pwg:XOffset>", "0", "</pwg:XOffset>">> \o
    <<"<pwg:YOffset>", "0", "</pwg:YOffset>">> \o
    <<"</pwg:ScanRegion>">> \o
    <<"</pwg:ScanRegions>">> \o
    <<"<pwg:DocumentFormat>">> \o docformat \o <<"</pwg:DocumentFormat>">> \o
    (IF extformat
     THEN <<"<pwg:DocumentFormatExt>">> \o docformat \o <<"</pwg:DocumentFormatExt>">>
     ELSE <<>>) \o
    <<"<scan:ColorMode>">> \o colormode \o <<"</scan:ColorMode>">> \o
    <<"<scan:XResolution>">> \o resolution \o <<"</scan:XResolution>">> \o
    <<"<scan:YResolution>">> \o resolution \o <<"</scan:YResolution>">> \o
    <<"</scan:ScanSettings>">>

(***************************************************************************)
(* The inputs of a run: the command line and what the device may answer.   *)
(***************************************************************************)
Sources == {<<"Flatbed">>, <<"ADF">>, <<"DuplexADF">>, <<"Duplex">>}

Resolutions == {<<"300">>, <<"600">>}

Formats == {<<"p", "d", "f">>, <<"j", "p", "g">>}

Pdf == <<"p", "d", "f">>

Args == [url : {URL}, source : Sources, resolution : Resolutions, format : Formats]

\* The capabilities documents, each the set of the key paths present in it:
\* a key below scan:Platen or scan:Adf is present only if that key is.
CapsDocs ==
    {doc \in SUBSET {<<"scan:Platen">>, <<"scan:Platen", "scan:PlatenInputCaps">>,
                     <<"scan:Adf">>, <<"scan:Adf", "scan:AdfSimplexInputCaps">>,
                     <<"scan:Adf", "scan:AdfDuplexInputCaps">>} :
        \A path \in doc : Len(path) = 2 => <<path[1]>> \in doc}

\* No document fetched yet.
NoCaps == {Unset}

\* No function is applied on its own: the whole program runs.
NoCall == [fn |-> "none"]

\* The Location headers the device may give; NoneVal: the header is absent.
Locations == {<<"http://brother/eSCL/ScanJobs/1">>, <<"http://brother/eSCL/ScanJobs/2">>}

\* The statuses the device may answer a POST and a GET with.
PostCodes == {200, 201, 404, 500, 503}

GetCodes == {200, 404, 500, 503}

\* urlopen and urlretrieve raise HTTPError for every status that is not 2xx.
HttpError(code) == ~(200 <= code /\ code < 300)

(***************************************************************************)
(* The run starts after the command line is parsed (lines 102-107) and the *)
(* flags of lines 109-115 are cleared.                                     *)
(***************************************************************************)
Init ==
    /\ pc = "get_caps"
    /\ call = NoCall
    /\ args \in Args
    /\ scan_caps = NoCaps
    /\ have_flatbed = FALSE
    /\ have_adf = FALSE
    /\ have_duplex = FALSE
    /\ flatbed = FALSE
    /\ adf = FALSE
    /\ duplex = FALSE
    /\ multifile = FALSE
    /\ source = Unset
    /\ post_url = Unset
    /\ post_data = Unset
    /\ count = 0
    /\ result = Unset
    /\ outfile = Unset
    /\ fcount = 0
    /\ filename = Unset
    /\ stdout = <<>>
    /\ raised = "none"
    /\ exitStatus = {}
    /\ requests = [capGets |-> 0, posts |-> 0, gets |-> 0, postUrls |-> {},
                   postBodies |-> {}, getUrls |-> {}]
    /\ sleeps = 0
    /\ files = <<>>
    /\ device = [busy |-> 0, location |-> Unset, pages |-> 0,
                 postStatus |-> 0, getStatus |-> 0]

(***************************************************************************)
(* get_scanner_caps (line 108): GET <url>/ScannerCapabilities.             *)
(***************************************************************************)
GetCapsOk ==
    /\ pc = "get_caps"
    /\ \E doc \in CapsDocs : scan_caps' = doc
    /\ requests' = [requests EXCEPT !.capGets = @ + 1]
    /\ pc' = "resolve"
    /\ UNCHANGED <<call, args, have_flatbed, have_adf, have_duplex, flatbed, adf, duplex,
                   multifile, source, post_url, post_data, count, result, outfile,
                   fcount, filename, stdout, raised, exitStatus, sleeps, files,
                   device>>

\* urlopen raises HTTPError, which nothing catches.
GetCapsError ==
    /\ pc = "get_caps"
    /\ requests' = [requests EXCEPT !.capGets = @ + 1]
    /\ raised' = "HTTPError"
    /\ exitStatus' = {1}
    /\ pc' = "done"
    /\ UNCHANGED <<call, args, scan_caps, have_flatbed, have_adf, have_duplex, flatbed, adf,
                   duplex, multifile, source, post_url, post_data, count, result,
                   outfile, fcount, filename, stdout, sleeps, files, device>>

(***************************************************************************)
(* Source resolution, lines 116-160.                                       *)
(***************************************************************************)
HaveFlatbed(caps) ==
    /\ <<"scan:Platen">> \in caps
    /\ <<"scan:Platen", "scan:PlatenInputCaps">> \in caps

HaveAdf(caps) ==
    /\ <<"scan:Adf">> \in caps
    /\ <<"scan:Adf", "scan:AdfSimplexInputCaps">> \in caps

HaveDuplex(caps) ==
    /\ <<"scan:Adf">> \in caps
    /\ <<"scan:Adf", "scan:AdfDuplexInputCaps">> \in caps

MsgNoSource == <<"no scan source (Flatbed, ADF) found, bailing out">>

MsgNoDuplex == <<"source DuplexADF not available, only have:">>

MsgOnlyHave(a, f) ==
    <<"  ">> \o (IF a THEN <<"ADF">> ELSE <<>>) \o <<" ">> \o
    (IF f THEN <<"Flatbed">> ELSE <<>>)

MsgNoAdf == <<"source ADF is not available">>

MsgFallback == <<"source ADF not available, falling back to Flatbed">>

MsgNoFlatbed == <<"source Flatbed is not available">>

MsgInvalid(src) == <<"invalid source argument: ">> \o src

\* ResolveSource with DuplexADF falling back to the simplex feeder and the
\* flatbed as ADF does.
ResolveSource_DuplexFallsBack(requested, hf, ha, hd, adf0, flatbed0) ==
    IF ~hf /\ ~ha /\ ~hd
    THEN [ok |-> FALSE, adf |-> adf0, duplex |-> FALSE, out |-> <<MsgNoSource>>]
    ELSE IF requested = <<"DuplexADF">> /\ hd
    THEN [ok |-> TRUE, adf |-> TRUE, duplex |-> TRUE, out |-> <<>>]
    ELSE IF requested \in {<<"ADF">>, <<"DuplexADF">>}
    THEN IF ~ha
         THEN IF ~hf
              THEN [ok |-> FALSE, adf |-> adf0, duplex |-> FALSE, out |-> <<MsgNoAdf>>]
              ELSE [ok |-> TRUE, adf |-> adf0, duplex |-> FALSE, out |-> <<MsgFallback>>]
         ELSE [ok |-> TRUE, adf |-> TRUE, duplex |-> FALSE, out |-> <<>>]
    ELSE IF requested = <<"Flatbed">>
    THEN IF ~hf
         THEN [ok |-> FALSE, adf |-> adf0, duplex |-> FALSE, out |-> <<MsgNoFlatbed>>]
         ELSE [ok |-> TRUE, adf |-> adf0, duplex |-> FALSE, out |-> <<>>]
    ELSE [ok |-> FALSE, adf |-> adf0, duplex |-> FALSE, out |-> <<MsgInvalid(requested)>>]

\* ResolveSource looking at the requested source before the no-source check.
ResolveSource_ArgumentFirst(requested, hf, ha, hd, adf0, flatbed0) ==
    IF requested \notin {<<"DuplexADF">>, <<"ADF">>, <<"Flatbed">>}
    THEN [ok |-> FALSE, adf |-> adf0, duplex |-> FALSE, out |-> <<MsgInvalid(requested)>>]
    ELSE IF ~hf /\ ~ha /\ ~hd
    THEN [ok |-> FALSE, adf |-> adf0, duplex |-> FALSE, out |-> <<MsgNoSource>>]
    ELSE IF requested = <<"DuplexADF">>
    THEN IF ~hd
         THEN [ok |-> FALSE, adf |-> adf0, duplex |-> FALSE,
               out |-> <<MsgNoDuplex, MsgOnlyHave(adf0, flatbed0)>>]
         ELSE [ok |-> TRUE, adf |-> TRUE, duplex |-> TRUE, out |-> <<>>]
    ELSE IF requested = <<"ADF">>
    THEN IF ~ha
         THEN IF ~hf
              THEN [ok |-> FALSE, adf |-> adf0, duplex |-> FALSE, out |-> <<MsgNoAdf>>]
              ELSE [ok |-> TRUE, adf |-> adf0, duplex |-> FALSE, out |-> <<MsgFallback>>]
         ELSE [ok |-> TRUE, adf |-> TRUE, duplex |-> FALSE, out |-> <<>>]
    ELSE IF ~hf
         THEN [ok |-> FALSE, adf |-> adf0, duplex |-> FALSE, out |-> <<MsgNoFlatbed>>]
         ELSE [ok |-> TRUE, adf |-> adf0, duplex |-> FALSE, out |-> <<>>]

\* ResolveSource going on after the message that Flatbed is not available.
ResolveSource_FlatbedNoExit(requested, hf, ha, hd, adf0, flatbed0) ==
    IF ~hf /\ ~ha /\ ~hd
    THEN [ok |-> FALSE, adf |-> adf0, duplex |-> FALSE, out |-> <<MsgNoSource>>]
    ELSE IF requested = <<"DuplexADF">>
    THEN IF ~hd
         THEN [ok |-> FALSE, adf |-> adf0, duplex |-> FALSE,
               out |-> <<MsgNoDuplex, MsgOnlyHave(adf0, flatbed0)>>]
         ELSE [ok |-> TRUE, adf |-> TRUE, duplex |-> TRUE, out |-> <<>>]
    ELSE IF requested = <<"ADF">>
    THEN IF ~ha
         THEN IF ~hf
              THEN [ok |-> FALSE, adf |-> adf0, duplex |-> FALSE, out |-> <<MsgNoAdf>>]
              ELSE [ok |-> TRUE, adf |-> adf0, duplex |-> FALSE, out |-> <<MsgFallback>>]
         ELSE [ok |-> TRUE, adf |-> TRUE, duplex |-> FALSE, out |-> <<>>]
    ELSE IF requested = <<"Flatbed">>
    THEN IF ~hf
         THEN [ok |-> TRUE, adf |-> adf0, duplex |-> FALSE, out |-> <<MsgNoFlatbed>>]
         ELSE [ok |-> TRUE, adf |-> adf0, duplex |-> FALSE, out |-> <<>>]
    ELSE [ok |-> FALSE, adf |-> adf0, duplex |-> FALSE, out |-> <<MsgInvalid(requested)>>]

\* ResolveSource falling back to the flatbed without a word.
ResolveSource_SilentFallback(requested, hf, ha, hd, adf0, flatbed0) ==
    IF ~hf /\ ~ha /\ ~hd
    THEN [ok |-> FALSE, adf |-> adf0, duplex |-> FALSE, out |-> <<MsgNoSource>>]
    ELSE IF requested = <<"DuplexADF">>
    THEN IF ~hd
         THEN [ok |-> FALSE, adf |-> adf0, duplex |-> FALSE,
               out |-> <<MsgNoDuplex, MsgOnlyHave(adf0, flatbed0)>>]
         ELSE [ok |-> TRUE, adf |-> TRUE, duplex |-> TRUE, out |-> <<>>]
    ELSE IF requested = <<"ADF">>
    THEN IF ~ha
         THEN IF ~hf
              THEN [ok |-> FALSE, adf |-> adf0, duplex |-> FALSE, out |-> <<MsgNoAdf>>]
              ELSE [ok |-> TRUE, adf |-> adf0, duplex |-> FALSE, out |-> <<>>]
         ELSE [ok |-> TRUE, adf |-> TRUE, duplex |-> FALSE, out |-> <<>>]
    ELSE IF requested = <<"Flatbed">>
    THEN IF ~hf
         THEN [ok |-> FALSE, adf |-> adf0, duplex |-> FALSE, out |-> <<MsgNoFlatbed>>]
         ELSE [ok |-> TRUE, adf |-> adf0, duplex |-> FALSE, out |-> <<>>]
    ELSE [ok |-> FALSE, adf |-> adf0, duplex |-> FALSE, out |-> <<MsgInvalid(requested)>>]

\* ResolveSource without line 132: DuplexADF sets duplex and leaves adf.
ResolveSource_DuplexNoAdf(requested, hf, ha, hd, adf0, flatbed0) ==
    IF ~hf /\ ~ha /\ ~hd
    THEN [ok |-> FALSE, adf |-> adf0, duplex |-> FALSE, out |-> <<MsgNoSource>>]
    ELSE IF requested = <<"DuplexADF">>
    THEN IF ~hd
         THEN [ok |-> FALSE, adf |-> adf0, duplex |-> FALSE,
               out |-> <<MsgNoDuplex, MsgOnlyHave(adf0, flatbed0)>>]
         ELSE [ok |-> TRUE, adf |-> adf0, duplex |-> TRUE, out |-> <<>>]
    ELSE IF requested = <<"ADF">>
    THEN IF ~ha
         THEN IF ~hf
              THEN [ok |-> FALSE, adf |-> adf0, duplex |-> FALSE, out |-> <<MsgNoAdf>>]
              ELSE [ok |-> TRUE, adf |-> adf0, duplex |-> FALSE, out |-> <<MsgFallback>>]
         ELSE [ok |-> TRUE, adf |-> TRUE, duplex |-> FALSE, out |-> <<>>]
    ELSE IF requested = <<"Flatbed">>
    THEN IF ~hf
         THEN [ok |-> FALSE, adf |-> adf0, duplex |-> FALSE, out |-> <<MsgNoFlatbed>>]
         ELSE [ok |-> TRUE, adf |-> adf0, duplex |-> FALSE, out |-> <<>>]
    ELSE [ok |-> FALSE, adf |-> adf0, duplex |-> FALSE, out |-> <<MsgInvalid(requested)>>]

\* Lines 124-152: whether the run goes on, the flags adf and duplex, and the
\* lines printed. adf0 and flatbed0 are the variables adf and flatbed as they
\* are when the branch is entered.
ResolveSource(requested, hf, ha, hd, adf0, flatbed0) ==
    IF ~hf /\ ~ha /\ ~hd
    THEN [ok |-> FALSE, adf |-> adf0, duplex |-> FALSE, out |-> <<MsgNoSource>>]
    ELSE IF requested = <<"DuplexADF">>
    THEN IF ~hd
         THEN [ok |-> FALSE, adf |-> adf0, duplex |-> FALSE,
               out |-> <<MsgNoDuplex, MsgOnlyHave(adf0, flatbed0)>>]
         ELSE [ok |-> TRUE, adf |-> TRUE, duplex |-> TRUE, out |-> <<>>]
    ELSE IF requested = <<"ADF">>
    THEN IF ~ha
         THEN IF ~hf
              THEN [ok |-> FALSE, adf |-> adf0, duplex |-> FALSE, out |-> <<MsgNoAdf>>]
              ELSE [ok |-> TRUE, adf |-> adf0, duplex |-> FALSE, out |-> <<MsgFallback>>]
         ELSE [ok |-> TRUE, adf |-> TRUE, duplex |-> FALSE, out |-> <<>>]
    ELSE IF requested = <<"Flatbed">>
    THEN IF ~hf
         THEN [ok |-> FALSE, adf |-> adf0, duplex |-> FALSE, out |-> <<MsgNoFlatbed>>]
         ELSE [ok |-> TRUE, adf |-> adf0, duplex |-> FALSE, out |-> <<>>]
    ELSE [ok |-> FALSE, adf |-> adf0, duplex |-> FALSE, out |-> <<MsgInvalid(requested)>>]

\* Lines 155-160: the input source named in the job.
InputSource(a) == IF a THEN <<"Feeder">> ELSE <<"Platen">>

\* Multifile not looking at the format.
Multifile_AnyFormat(a, format) == a

\* Lines 155-158: one file per page only from the feeder and not for pdf.
Multifile(a, format) == a /\ format # Pdf

\* Lines 116-160. input_caps (lines 134-149) is assigned and never read; the
\* keys it is read from are present whenever its branch is taken.
Resolve ==
    /\ pc = "resolve"
    /\ LET hf == HaveFlatbed(scan_caps)
           ha == HaveAdf(scan_caps)
           hd == HaveDuplex(scan_caps)
           r == ResolveSource(args.source, hf, ha, hd, adf, flatbed)
       IN /\ have_flatbed' = hf
          /\ have_adf' = ha
          /\ have_duplex' = hd
          /\ stdout' = stdout \o r.out
          /\ adf' = r.adf
          /\ duplex' = r.duplex
          /\ IF r.ok
             THEN /\ source' = InputSource(r.adf)
                  /\ multifile' = Multifile(r.adf, args.format)
                  /\ pc' = "submit"
                  /\ exitStatus' = exitStatus
             ELSE /\ pc' = "done"
                  /\ exitStatus' = {1}
                  /\ UNCHANGED <<source, multifile>>
    /\ UNCHANGED <<call, args, scan_caps, flatbed, post_url, post_data, count, result,
                   outfile, fcount, filename, raised, requests, sleeps, files, device>>

(***************************************************************************)
(* post_scanrequest, lines 53-77, called at line 163.                      *)
(***************************************************************************)
ColorMode == <<"RGB24">>

MimeType(format) == <<"application/">> \o format

\* Lines 163, 54-60: the call and what precedes the loop.
Submit ==
    /\ pc = "submit"
    /\ post_url' = args.url \o <<"/ScanJobs">>
    /\ post_data' = build_scansettings_xml(source, args.resolution,
                                           MimeType(args.format), ColorMode, TRUE)
    /\ count' = 0
    /\ pc' = "post"
    /\ UNCHANGED <<call, args, scan_caps, have_flatbed, have_adf, have_duplex, flatbed, adf,
                   duplex, multifile, source, result, outfile, fcount, filename,
                   stdout, raised, exitStatus, requests, sleeps, files, device>>

Posted == [requests EXCEPT !.posts = @ + 1,
                           !.postUrls = @ \cup {post_url},
                           !.postBodies = @ \cup {post_data}]

\* LocationOf returning the url the job was posted to.
LocationOf_PostUrl(header) == URL \o <<"/ScanJobs">>

\* Line 77: headers['location'] is None when the header is absent.
LocationOf(header) == header

\* Lines 63-64, 74-77: the device accepts the job.
PostOk ==
    /\ pc = "post"
    /\ \E code \in PostCodes, header \in Locations \cup {NoneVal} :
          /\ ~HttpError(code)
          /\ device' = [device EXCEPT !.location = header, !.postStatus = code]
          /\ result' = LocationOf(header)
    /\ requests' = Posted
    /\ stdout' = IF count > 0 THEN Append(stdout, <<>>) ELSE stdout
    /\ pc' = "posted"
    /\ UNCHANGED <<call, args, scan_caps, have_flatbed, have_adf, have_duplex, flatbed, adf,
                   duplex, multifile, source, post_url, post_data, count, outfile,
                   fcount, filename, raised, exitStatus, sleeps, files>>

MsgBusy(c) ==
    <<"Scanner seems busy (HTTP 503), waiting ">> \o Str(c) \o <<" of 100 seconds">>

\* RetryAgain giving up one attempt early.
RetryAgain_Early(c) == c < RetryLimit - 1

\* RetryAgain allowing one attempt more.
RetryAgain_Late(c) == c <= RetryLimit

\* Line 70: whether the POST is tried again, c being the count after line 68.
RetryAgain(c) == c < RetryLimit

\* IsBusy retrying every server error.
IsBusy_AnyServerError(code) == code >= 500

\* Line 66: the status that is retried.
IsBusy(code) == code = 503

\* Lines 65-72: the device answers 503.
PostBusy ==
    /\ pc = "post"
    /\ \E code \in PostCodes :
          /\ HttpError(code)
          /\ IsBusy(code)
          /\ device' = [device EXCEPT !.busy = IF code = 503 THEN @ + 1 ELSE @,
                                      !.postStatus = code]
    /\ requests' = Posted
    /\ stdout' = Append(stdout, MsgBusy(count))
    /\ count' = count + 1
    /\ sleeps' = sleeps + 1
    /\ IF RetryAgain(count')
       THEN /\ pc' = "post"
            /\ exitStatus' = exitStatus
       ELSE /\ pc' = "done"
            /\ exitStatus' = {1}
    /\ UNCHANGED <<call, args, scan_caps, have_flatbed, have_adf, have_duplex, flatbed, adf,
                   duplex, multifile, source, post_url, post_data, result, outfile,
                   fcount, filename, raised, files>>

\* Lines 65-66, 73: any other error status is raised again and nothing catches it.
PostError ==
    /\ pc = "post"
    /\ \E code \in PostCodes :
          /\ HttpError(code)
          /\ ~IsBusy(code)
          /\ device' = [device EXCEPT !.busy = IF code = 503 THEN @ + 1 ELSE @,
                                      !.postStatus = code]
    /\ requests' = Posted
    /\ raised' = "HTTPError"
    /\ exitStatus' = {1}
    /\ pc' = "done"
    /\ UNCHANGED <<call, args, scan_caps, have_flatbed, have_adf, have_duplex, flatbed, adf,
                   duplex, multifile, source, post_url, post_data, count, result,
                   outfile, fcount, filename, stdout, sleeps, files>>

(***************************************************************************)
(* fetch_result, lines 79-99, called at line 167.                          *)
(***************************************************************************)
\* FileName never inserting the counter.
FileName_NoCounter(out, c, multi) == out

\* FileName taking all after the first dot for the extension.
FileName_SplitFirst(out, c, multi) ==
    IF multi
    THEN LET name == Split(out, ".")
         IN name[1] \o <<"-">> \o Str(c) \o <<".">> \o Join(Tail(name), ".")
    ELSE out

\* Lines 82-88: the name of the file the next document goes to.
FileName(out, c, multi) ==
    IF multi
    THEN LET name == Split(out, ".")
             ext == Last(name)
         IN Join(Front(name), ".") \o <<"-">> \o Str(c) \o <<".">> \o ext
    ELSE out

MsgRetrieving(f) == <<"retrieving ">> \o f

\* Lines 166-167, 80: the call and what precedes the loop.
CallFetch ==
    /\ pc = "posted"
    /\ outfile' = <<".", "/", "o", "u", "t", ".">> \o args.format
    /\ fcount' = 1
    /\ pc' = "fetch"
    /\ UNCHANGED <<call, args, scan_caps, have_flatbed, have_adf, have_duplex, flatbed, adf,
                   duplex, multifile, source, post_url, post_data, count, result,
                   filename, stdout, raised, exitStatus, requests, sleeps, files,
                   device>>

\* Line 92: location + '/NextDocument' is a TypeError when location is None.
CanConcat(location) == location # NoneVal

Got == [requests EXCEPT !.gets = @ + 1,
                        !.getUrls = @ \cup {result \o <<"/NextDocument">>}]

\* FetchAgain never leaving the loop after a document.
FetchAgain_Always(multi) == TRUE

\* FetchAgain leaving the loop after the first document in every mode.
FetchAgain_Never(multi) == FALSE

\* Lines 94-95: whether the loop goes on after a document was retrieved.
FetchAgain(multi) == multi

\* Lines 82-95: the device answers with a document.
FetchOk ==
    /\ pc = "fetch"
    /\ CanConcat(result)
    /\ device.pages < MaxPages
    /\ \E code \in GetCodes :
          /\ ~HttpError(code)
          /\ device' = [device EXCEPT !.pages = @ + 1, !.getStatus = code]
    /\ filename' = FileName(outfile, fcount, multifile)
    /\ sleeps' = sleeps + 1
    /\ stdout' = Append(stdout, MsgRetrieving(filename'))
    /\ requests' = Got
    /\ files' = Append(files, [name |-> filename', page |-> device.pages + 1])
    /\ fcount' = fcount + 1
    /\ IF FetchAgain(multifile)
       THEN /\ pc' = "fetch"
            /\ exitStatus' = exitStatus
       ELSE /\ pc' = "done"
            /\ exitStatus' = {0}
    /\ UNCHANGED <<call, args, scan_caps, have_flatbed, have_adf, have_duplex, flatbed, adf,
                   duplex, multifile, source, post_url, post_data, count, result,
                   outfile, raised>>

\* IsEnd taking every error status for the end of the job.
IsEnd_AnyError(code) == code >= 400

\* IsEnd taking no status for the end of the job.
IsEnd_None(code) == FALSE

\* Line 97: the status that ends the loop without an error.
IsEnd(code) == code = 404

\* Lines 82-92, 96-98: the device answers 404; the run ends normally.
Fetch404 ==
    /\ pc = "fetch"
    /\ CanConcat(result)
    /\ \E code \in GetCodes :
          /\ HttpError(code)
          /\ IsEnd(code)
          /\ device' = [device EXCEPT !.getStatus = code]
    /\ filename' = FileName(outfile, fcount, multifile)
    /\ sleeps' = sleeps + 1
    /\ stdout' = Append(stdout, MsgRetrieving(filename'))
    /\ requests' = Got
    /\ pc' = "done"
    /\ exitStatus' = {0}
    /\ UNCHANGED <<call, args, scan_caps, have_flatbed, have_adf, have_duplex, flatbed, adf,
                   duplex, multifile, source, post_url, post_data, count, result,
                   outfile, fcount, raised, files>>

\* Lines 82-92, 96-99: any other error status is raised again.
FetchError ==
    /\ pc = "fetch"
    /\ CanConcat(result)
    /\ \E code \in GetCodes :
          /\ HttpError(code)
          /\ ~IsEnd(code)
          /\ device' = [device EXCEPT !.getStatus = code]
    /\ filename' = FileName(outfile, fcount, multifile)
    /\ sleeps' = sleeps + 1
    /\ stdout' = Append(stdout, MsgRetrieving(filename'))
    /\ requests' = Got
    /\ raised' = "HTTPError"
    /\ pc' = "done"
    /\ exitStatus' = {1}
    /\ UNCHANGED <<call, args, scan_caps, have_flatbed, have_adf, have_duplex, flatbed, adf,
                   duplex, multifile, source, post_url, post_data, count, result,
                   outfile, fcount, files>>

\* Lines 82-92: with location None the url cannot be built; the TypeError is
\* raised after the sleep and the print, before any request is made.
FetchTypeError ==
    /\ pc = "fetch"
    /\ ~CanConcat(result)
    /\ filename' = FileName(outfile, fcount, multifile)
    /\ sleeps' = sleeps + 1
    /\ stdout' = Append(stdout, MsgRetrieving(filename'))
    /\ raised' = "TypeError"
    /\ pc' = "done"
    /\ exitStatus' = {1}
    /\ UNCHANGED <<call, args, scan_caps, have_flatbed, have_adf, have_duplex, flatbed, adf,
                   duplex, multifile, source, post_url, post_data, count, result,
                   outfile, fcount, requests, files, device>>

Next ==
    \/ GetCapsOk
    \/ GetCapsError
    \/ Resolve
    \/ Submit
    \/ PostOk
    \/ PostBusy
    \/ PostError
    \/ CallFetch
    \/ FetchOk
    \/ Fetch404
    \/ FetchError
    \/ FetchTypeError

Spec == Init /\ [][Next]_vars

(***************************************************************************)
(* The functions applied on their own: build_scansettings_xml (lines       *)
(* 23-44) and the file name of lines 82-88, on arguments drawn from sets   *)
(* wider than what one run of the program hands them.                      *)
(***************************************************************************)
\* The defaults of the command line, lines 103-106.
DefaultArgs ==
    [url |-> URL, source |-> <<"ADF">>, resolution |-> <<"300">>, format |-> Pdf]

BuildCalls ==
    [fn : {"build_scansettings_xml"},
     source : {<<"Feeder">>, <<"Platen">>},
     resolution : {<<"75">>, <<"300">>, <<"600">>},
     docformat : {MimeType(f) : f \in Formats} \cup {<<"image/jpeg">>},
     colormode : {ColorMode, <<"Grayscale8">>},
     extformat : BOOLEAN,
     out : {Unset}]

\* The characters the output paths are made of.
PathChars == {"a", ".", "/"}

\* The output paths: every string of up to MaxLen characters, and the paths
\* out.pdf, archive.scan.jpg and ./out.<format>.
Templates ==
    UNION {[1..n -> PathChars] : n \in 1..MaxLen}
        \cup {<<"o", "u", "t", ".", "p", "d", "f">>,
               <<"a", "r", "c", "h", "i", "v", "e", ".", "s", "c", "a", "n", ".",
                 "j", "p", "g">>}
        \cup {<<".", "/", "o", "u", "t", ".">> \o f : f \in Formats}

NameCalls ==
    [fn : {"FileName"},
     outfile : Templates,
     count : 1..MaxCount,
     multi : BOOLEAN,
     out : {Unset}]

InitCalls ==
    /\ pc = "call"
    /\ call \in BuildCalls \cup NameCalls
    /\ args = DefaultArgs
    /\ scan_caps = NoCaps
    /\ have_flatbed = FALSE
    /\ have_adf = FALSE
    /\ have_duplex = FALSE
    /\ flatbed = FALSE
    /\ adf = FALSE
    /\ duplex = FALSE
    /\ multifile = FALSE
    /\ source = Unset
    /\ post_url = Unset
    /\ post_data = Unset
    /\ count = 0
    /\ result = Unset
    /\ outfile = Unset
    /\ fcount = 0
    /\ filename = Unset
    /\ stdout = <<>>
    /\ raised = "none"
    /\ exitStatus = {}
    /\ requests = [capGets |-> 0, posts |-> 0, gets |-> 0, postUrls |-> {},
                   postBodies |-> {}, getUrls |-> {}]
    /\ sleeps = 0
    /\ files = <<>>
    /\ device = [busy |-> 0, location |-> Unset, pages |-> 0,
                 postStatus |-> 0, getStatus |-> 0]

\* Lines 23-44 applied to the arguments of the call.
CallBuild ==
    /\ pc = "call"
    /\ call.fn = "build_scansettings_xml"
    /\ call' = [call EXCEPT !.out = build_scansettings_xml(
                     call.source, call.resolution, call.docformat, call.colormode,
                     call.extformat)]
    /\ pc' = "returned"
    /\ UNCHANGED <<args, scan_caps, have_flatbed, have_adf, have_duplex, flatbed, adf,
                   duplex, multifile, source, post_url, post_data, count, result,
                   outfile, fcount, filename, stdout, raised, exitStatus, requests,
                   sleeps, files, device>>

\* Lines 82-88 applied to the arguments of the call.
CallFileName ==
    /\ pc = "call"
    /\ call.fn = "FileName"
    /\ call' = [call EXCEPT !.out = FileName(call.outfile, call.count, call.multi)]
    /\ pc' = "returned"
    /\ UNCHANGED <<args, scan_caps, have_flatbed, have_adf, have_duplex, flatbed, adf,
                   duplex, multifile, source, post_url, post_data, count, result,
                   outfile, fcount, filename, stdout, raised, exitStatus, requests,
                   sleeps, files, device>>

NextCalls ==
    \/ CallBuild
    \/ CallFileName

SpecCalls == InitCalls /\ [][NextCalls]_vars

(***************************************************************************)
(* Properties of job submission.                                           *)
(***************************************************************************)
\* The run has ended: no step is left to take.
Terminated == pc = "done" /\ ~ENABLED Next

\* C1: when the device answers the POST with 503 exactly k times, k < 100, and
\* then with success and a Location header, post_scanrequest returns that
\* Location after k + 1 POSTs and k sleeps; and after k < 100 answers of 503
\* and nothing else the POST is made again.
C1_SubmitReturnsLocationAfterKRetries ==
    /\ (pc = "posted" /\ device.location \in Locations) =>
          /\ result = device.location
          /\ device.busy < RetryLimit
          /\ requests.posts = device.busy + 1
          /\ sleeps = device.busy
    /\ (requests.posts > 0 /\ device.busy = requests.posts
          /\ device.busy < RetryLimit) =>
          /\ pc = "post"
          /\ sleeps = device.busy

C1_Witness ==
    /\ pc = "posted"
    /\ device.busy = RetryLimit - 1
    /\ requests.posts = RetryLimit
    /\ result \in Locations

\* C2: when the device answers every POST with 503, the run gives up after
\* exactly 100 POSTs: it has ended with exit status 1, no Location was
\* returned and no NextDocument request was made; there is never a 101st POST.
C2_GivesUpAfter100Posts ==
    /\ requests.posts <= RetryLimit
    /\ (device.busy = requests.posts /\ requests.posts >= RetryLimit) =>
          /\ requests.posts = RetryLimit
          /\ Terminated
          /\ exitStatus = {1}
          /\ result = Unset
          /\ requests.gets = 0
    /\ (pc = "done" /\ device.postStatus = 503) => device.busy = RetryLimit

C2_Witness ==
    /\ pc = "done"
    /\ device.busy = RetryLimit
    /\ requests.posts = RetryLimit
    /\ exitStatus = {1}

\* C3: when a POST is answered with an error status other than 503, on the
\* first attempt or after n < 100 answers of 503, the HTTPError ends the run
\* at once: no further POST, no sleep after it, and no fetching.
C3_HardPostErrorFailsImmediately ==
    (requests.posts > 0 /\ HttpError(device.postStatus) /\ device.postStatus # 503) =>
        /\ Terminated
        /\ raised = "HTTPError"
        /\ exitStatus = {1}
        /\ device.busy < RetryLimit
        /\ requests.posts = device.busy + 1
        /\ sleeps = device.busy
        /\ result = Unset
        /\ requests.gets = 0
        /\ files = <<>>

C3_Witness ==
    /\ device.postStatus = 500
    /\ device.busy = 2
    /\ requests.posts = 3
    /\ raised = "HTTPError"

\* C4: when the POST succeeds and the response has no Location header,
\* post_scanrequest fails with a ProtocolError: it returns no value and
\* fetching (its sleep, its NextDocument request) is never started.
C4_MissingLocationFailsInSubmit ==
    (requests.posts > 0 /\ ~HttpError(device.postStatus)
       /\ device.location = NoneVal) =>
        /\ Terminated
        /\ raised = "ProtocolError"
        /\ result = Unset
        /\ sleeps = device.busy
        /\ requests.gets = 0

(***************************************************************************)
(* Properties of result fetching.                                          *)
(***************************************************************************)
PageDigit == <<"1", "2", "3", "4", "5", "6", "7", "8", "9">>

\* <base>-<i>.<ext> for the output path ./out.<format> of the run
NumberedName(i) ==
    <<".", "/", "o", "u", "t", "-", PageDigit[i], ".">> \o args.format

\* ./out.<format>, the output path with no counter in it
PlainName == <<".", "/", "o", "u", "t", ".">> \o args.format

\* the files written are the documents 1..n the device served, in order
FilesArePages(n) ==
    /\ Len(files) = n
    /\ \A i \in 1..n : files[i].page = i

\* C5: with multifile true, when the device answers NextDocument with success
\* n times and then with 404, exactly n files were written, named
\* <base>-1.<ext> .. <base>-n.<ext> in that order, n + 1 GETs were made and
\* the run ends normally; while the device answers with success the next
\* document is requested.
C5_MultiPageWritesNNumberedFiles ==
    /\ (multifile /\ device.getStatus = 404) =>
          /\ Terminated
          /\ raised = "none"
          /\ exitStatus = {0}
          /\ FilesArePages(device.pages)
          /\ \A i \in 1..Len(files) : files[i].name = NumberedName(i)
          /\ requests.gets = device.pages + 1
    /\ (multifile /\ ~HttpError(device.getStatus)) =>
          /\ pc = "fetch"
          /\ FilesArePages(device.pages)
          /\ requests.gets = device.pages

C5_Witness ==
    /\ multifile
    /\ device.getStatus = 404
    /\ device.pages = MaxPages
    /\ Len(files) = MaxPages
    /\ pc = "done"

\* C6: with multifile false, when the first GET of NextDocument succeeds the
\* fetch stops: one GET was made, one file was written, its name is the output
\* path itself, and the run has ended, so nothing more is requested.
C6_SingleDocumentStopsAfterFirstSuccess ==
    (~multifile /\ device.pages >= 1) =>
        /\ Terminated
        /\ raised = "none"
        /\ exitStatus = {0}
        /\ requests.gets = 1
        /\ device.pages = 1
        /\ ~HttpError(device.getStatus)
        /\ FilesArePages(1)
        /\ files[1].name = PlainName

C6_Witness ==
    /\ ~multifile
    /\ device.pages = 1
    /\ Len(files) = 1
    /\ pc = "done"

\* C7: when a GET of NextDocument is answered with an error status other than
\* 404 after m documents, the HTTPError ends the run: no further GET, no file
\* for the failed request, and the m files written before stay as they were.
C7_HardGetErrorKeepsWrittenFiles ==
    /\ [](( requests.gets > 0 /\ HttpError(device.getStatus)
               /\ device.getStatus # 404) =>
            /\ Terminated
            /\ raised = "HTTPError"
            /\ exitStatus = {1}
            /\ requests.gets = device.pages + 1
            /\ FilesArePages(device.pages))
    /\ [][(HttpError(device'.getStatus) /\ device'.getStatus # 404) =>
             files' = files]_vars

C7_Witness ==
    /\ device.getStatus = 500
    /\ device.pages = 2
    /\ Len(files) = 2
    /\ raised = "HTTPError"

(***************************************************************************)
(* Properties of source resolution.                                        *)
(***************************************************************************)
\* What the capabilities document advertises.
FlatbedAvailable == <<"scan:Platen", "scan:PlatenInputCaps">> \in scan_caps

SimplexAvailable == <<"scan:Adf", "scan:AdfSimplexInputCaps">> \in scan_caps

DuplexAvailable == <<"scan:Adf", "scan:AdfDuplexInputCaps">> \in scan_caps

\* Lines 116-160 have run.
Resolved == pc \notin {"get_caps", "resolve"} /\ scan_caps # NoCaps

\* The run was ended by sys.exit(1) in lines 124-152, its last line printed
\* being msg.
ResolutionFailed(msg) ==
    /\ Terminated
    /\ exitStatus = {1}
    /\ raised = "none"
    /\ source = Unset
    /\ requests.posts = 0
    /\ stdout # <<>>
    /\ Last(stdout) = msg

\* The run went on to job submission with the input source src, which is the
\* input source of every job posted.
ResolvedTo(src) ==
    /\ source = src
    /\ pc = "done" => requests.posts > 0
    /\ \A body \in requests.postBodies :
          \E i \in 1..(Len(body) - 2) :
              /\ body[i] = "<pwg:InputSource>"
              /\ <<body[i + 1]>> = src
              /\ body[i + 2] = "</pwg:InputSource>"

\* C8: with at least one source available, DuplexADF gives Feeder iff
\* feeder-duplex is available and fails otherwise; ADF gives Feeder iff
\* feeder-simplex is available, else Platen iff flatbed is available, else
\* fails; Flatbed gives Platen iff flatbed is available and fails otherwise;
\* any other value fails as an invalid argument. The job names that source.
C8_SourceResolutionDecisionTable ==
    (Resolved /\ (FlatbedAvailable \/ SimplexAvailable \/ DuplexAvailable)) =>
        CASE args.source = <<"DuplexADF">> ->
               IF DuplexAvailable
               THEN ResolvedTo(<<"Feeder">>)
               ELSE ResolutionFailed(MsgOnlyHave(adf, flatbed))
                      /\ stdout[1] = MsgNoDuplex
          [] args.source = <<"ADF">> ->
               IF SimplexAvailable THEN ResolvedTo(<<"Feeder">>)
               ELSE IF FlatbedAvailable THEN ResolvedTo(<<"Platen">>)
               ELSE ResolutionFailed(MsgNoAdf)
          [] args.source = <<"Flatbed">> ->
               IF FlatbedAvailable
               THEN ResolvedTo(<<"Platen">>)
               ELSE ResolutionFailed(MsgNoFlatbed)
          [] OTHER -> ResolutionFailed(<<"invalid source argument: ">> \o args.source)

C8_Witness ==
    /\ args.source = <<"ADF">>
    /\ ~SimplexAvailable /\ FlatbedAvailable /\ DuplexAvailable
    /\ source = <<"Platen">>
    /\ requests.posts = 1
    /\ pc = "posted"

\* C9: when the capabilities advertise no flatbed, no feeder-simplex and no
\* feeder-duplex, the run fails with the no-scan-source message for every
\* requested source, also one outside Flatbed, ADF, DuplexADF.
C9_NoSourceTakesPrecedence ==
    (Resolved /\ ~FlatbedAvailable /\ ~SimplexAvailable /\ ~DuplexAvailable) =>
        /\ ResolutionFailed(MsgNoSource)
        /\ stdout = <<MsgNoSource>>

C9_Witness ==
    /\ Resolved
    /\ args.source = <<"Duplex">>
    /\ ~FlatbedAvailable /\ ~SimplexAvailable /\ ~DuplexAvailable
    /\ stdout = <<MsgNoSource>>
    /\ exitStatus = {1}

\* C10: in every run that reaches job submission, multifile is true only when
\* the input source is Feeder and the format is not pdf; with multifile false
\* the documents are fetched in single-document mode: at most one file, named
\* by the output path itself.
C10_MultifileOnlyForFeederNonPdf ==
    (Resolved /\ source # Unset) =>
        /\ multifile => (source = <<"Feeder">> /\ args.format # <<"p", "d", "f">>)
        /\ source = <<"Platen">> => ~multifile
        /\ args.format = <<"p", "d", "f">> => ~multifile
        /\ ~multifile =>
              /\ Len(files) <= 1
              /\ \A i \in 1..Len(files) : files[i].name = PlainName

C10_Witness ==
    /\ args.source = <<"ADF">>
    /\ source = <<"Platen">>
    /\ args.format = <<"j", "p", "g">>
    /\ ~multifile
    /\ Len(files) = 1
    /\ pc = "done"

(***************************************************************************)
(* Properties of the run as a whole.                                       *)
(***************************************************************************)
\* One of the messages of lines 125-151 that precede sys.exit(1) was printed.
MismatchReported ==
    \E i \in 1..Len(stdout) :
        stdout[i] \in {MsgNoSource, MsgNoDuplex, MsgNoAdf, MsgNoFlatbed,
                       MsgInvalid(args.source)}

\* C11: a run that reports no scan source, an unavailable source or an invalid
\* source has ended with exit status 1 without any POST to /ScanJobs, any GET
\* of NextDocument, any sleep or any second request for the capabilities.
C11_MismatchEndsRunBeforeAnyJob ==
    MismatchReported =>
        /\ Terminated
        /\ exitStatus = {1}
        /\ raised = "none"
        /\ requests.capGets = 1
        /\ requests.posts = 0
        /\ requests.gets = 0
        /\ sleeps = 0
        /\ count = 0
        /\ files = <<>>

C11_Witness ==
    /\ MismatchReported
    /\ args.source = <<"Flatbed">>
    /\ Last(stdout) = MsgNoFlatbed
    /\ SimplexAvailable
    /\ exitStatus = {1}

(***************************************************************************)
(* Properties of the job descriptor.                                       *)
(***************************************************************************)
\* The places of a piece in a document.
Places(doc, piece) == {i \in 1..Len(doc) : doc[i] = piece}

OpenTag(name) == "<" \o name \o ">"

CloseTag(name) == "</" \o name \o ">"

\* The document has exactly one element of that name.
HasOne(doc, name) ==
    /\ Cardinality(Places(doc, OpenTag(name))) = 1
    /\ Cardinality(Places(doc, CloseTag(name))) = 1
    /\ \A i \in Places(doc, OpenTag(name)) :
          \A j \in Places(doc, CloseTag(name)) : i < j

\* What stands between the opening and the closing tag of that element.
Content(doc, name) ==
    LET i == CHOOSE k \in 1..Len(doc) : doc[k] = OpenTag(name)
        j == CHOOSE k \in 1..Len(doc) : doc[k] = CloseTag(name)
    IN SubSeq(doc, i + 1, j - 1)

\* build_scansettings_xml has returned a document.
Built == pc = "returned" /\ call.fn = "build_scansettings_xml"

\* C12: the job descriptor built for a source, a resolution, a MIME type and a
\* color mode has version 2.0, that input source, that MIME type as document
\* format and as extended document format, that color mode, and that
\* resolution as X and as Y resolution.
C12_DescriptorCarriesTheInputs ==
    (Built /\ call.extformat) =>
        /\ \A name \in {"pwg:Version", "pwg:InputSource", "pwg:DocumentFormat",
                          "pwg:DocumentFormatExt", "scan:ColorMode",
                          "scan:XResolution", "scan:YResolution"} :
              HasOne(call.out, name)
        /\ Content(call.out, "pwg:Version") = <<"2.0">>
        /\ Content(call.out, "pwg:InputSource") = call.source
        /\ Content(call.out, "pwg:DocumentFormat") = call.docformat
        /\ Content(call.out, "pwg:DocumentFormatExt") = call.docformat
        /\ Content(call.out, "scan:ColorMode") = call.colormode
        /\ Content(call.out, "scan:XResolution") = call.resolution
        /\ Content(call.out, "scan:YResolution") = call.resolution
        /\ Content(call.out, "scan:XResolution") = Content(call.out, "scan:YResolution")

C12_Witness ==
    /\ Built
    /\ call.extformat
    /\ call.source = <<"Platen">>
    /\ call.resolution = <<"600">>
    /\ call.docformat = <<"image/jpeg">>
    /\ call.colormode = <<"Grayscale8">>
    /\ Content(call.out, "scan:YResolution") = <<"600">>

\* How many of the unit make an inch, for the units of length eSCL names.
UnitsPerInch(unit) ==
    CASE unit = <<"escl:ThreeHundredthsOfInches">> -> 300
      [] unit = <<"escl:HundredthsOfInches">> -> 100
      [] OTHER -> 0

\* The document has one scan region, of height 3507 and width 2550 at
\* offset 0, 0, whatever the call's arguments are.
OneFixedRegion(doc) ==
    /\ \A name \in {"pwg:ScanRegions", "pwg:ScanRegion", "pwg:ContentRegionUnits",
                      "pwg:Height", "pwg:Width", "pwg:XOffset", "pwg:YOffset"} :
          HasOne(doc, name)
    /\ Content(doc, "pwg:ScanRegions") =
          <<OpenTag("pwg:ScanRegion")>> \o Content(doc, "pwg:ScanRegion")
              \o <<CloseTag("pwg:ScanRegion")>>
    /\ Len(Content(doc, "pwg:ScanRegion")) = 15
    /\ \A name \in {"pwg:ContentRegionUnits", "pwg:Height", "pwg:Width",
                      "pwg:XOffset", "pwg:YOffset"} :
          \E k \in 1..Len(Content(doc, "pwg:ScanRegion")) :
              Content(doc, "pwg:ScanRegion")[k] = OpenTag(name)
    /\ Content(doc, "pwg:Height") = <<"3507">>
    /\ Content(doc, "pwg:Width") = <<"2550">>
    /\ Content(doc, "pwg:XOffset") = <<"0">>
    /\ Content(doc, "pwg:YOffset") = <<"0">>

\* C13 as claimed: every job descriptor has exactly one scan region, the same
\* for all inputs: height 3507, width 2550, offset 0, 0, its units declared as
\* hundredths of an inch.
C13_RegionInHundredths ==
    Built =>
        /\ OneFixedRegion(call.out)
        /\ UnitsPerInch(Content(call.out, "pwg:ContentRegionUnits")) = 100

\* C13 as amended: every job descriptor has exactly one scan region, the same
\* for all inputs: height 3507, width 2550, offset 0, 0, its units declared as
\* three-hundredths of an inch (escl:ThreeHundredthsOfInches).
C13_RegionInThreeHundredths ==
    Built =>
        /\ OneFixedRegion(call.out)
        /\ Content(call.out, "pwg:ContentRegionUnits")
              = <<"escl:ThreeHundredthsOfInches">>
        /\ UnitsPerInch(Content(call.out, "pwg:ContentRegionUnits")) = 300

C13_Witness ==
    /\ Built
    /\ call.source = <<"Feeder">>
    /\ call.resolution = <<"75">>
    /\ ~call.extformat
    /\ Content(call.out, "pwg:Height") = <<"3507">>
    /\ Content(call.out, "pwg:ContentRegionUnits") = <<"escl:ThreeHundredthsOfInches">>

(***************************************************************************)
(* Properties of the file name.                                            *)
(***************************************************************************)
\* The file name of a page of a multi-page result has been derived.
Named == pc = "returned" /\ call.fn = "FileName" /\ call.multi

HasDot(path) == \E i \in 1..Len(path) : path[i] = "."

\* The place of the last dot of a path that has one.
LastDot(path) ==
    CHOOSE i \in 1..Len(path) :
        path[i] = "." /\ \A j \in (i + 1)..Len(path) : path[j] # "."

\* The decimal digits of a counter below 100.
Decimal(c) ==
    IF c < 10 THEN <<Digits[c + 1]>>
    ELSE <<Digits[(c \div 10) + 1], Digits[(c % 10) + 1]>>

\* The path with "-c" put in after its first p characters.
InsertedAt(path, p, c) ==
    SubSeq(path, 1, p) \o <<"-">> \o Decimal(c) \o SubSeq(path, p + 1, Len(path))

\* Another counter gives another name.
NoOtherCounterGivesIt ==
    \A c \in 1..MaxCount :
        c # call.count => FileName(call.outfile, c, TRUE) # call.out

\* C14 as claimed: for every output path and every counter c >= 1 the file
\* name is the path with "-c" inserted before its last dot-separated segment
\* (before the dot that starts it, if there is one) and everything else left
\* as it is; distinct counters give distinct names.
C14_CounterInsertedInEveryPath ==
    Named =>
        /\ call.out = InsertedAt(call.outfile,
                                 IF HasDot(call.outfile)
                                 THEN LastDot(call.outfile) - 1 ELSE 0,
                                 call.count)
        /\ NoOtherCounterGivesIt

\* C14 as amended: for every output path with at least one dot and every
\* counter c >= 1 the file name is the path with "-c" inserted before its
\* last dot and everything else left as it is; a path without a dot gives
\* "-c." followed by the path; distinct counters give distinct names.
C14_CounterInsertedBeforeLastDot ==
    Named =>
        /\ HasDot(call.outfile) =>
              call.out = InsertedAt(call.outfile, LastDot(call.outfile) - 1, call.count)
        /\ ~HasDot(call.outfile) =>
              call.out = <<"-">> \o Decimal(call.count) \o <<".">> \o call.outfile
        /\ NoOtherCounterGivesIt

C14_Witness ==
    /\ Named
    /\ call.outfile = <<"a", "r", "c", "h", "i", "v", "e", ".", "s", "c", "a", "n", ".",
                        "j", "p", "g">>
    /\ call.count = MaxCount
    /\ call.out = <<"a", "r", "c", "h", "i", "v", "e", ".", "s", "c", "a", "n", "-",
                    "1", "2", ".", "j", "p", "g">>

(***************************************************************************)
(* Properties of the order of events in a run.                             *)
(***************************************************************************)
\* The warning of line 140 was printed.
FallbackWarned == \E i \in 1..Len(stdout) : stdout[i] = MsgFallback

\* C15: whenever ADF was requested and the job goes to the input source
\* Platen, the fallback warning was printed before the POST to /ScanJobs; and
\* the warning is printed only when ADF was requested, feeder-simplex is not
\* available and flatbed is.
C15_FallbackIsNeverSilent ==
    /\ []((args.source = <<"ADF">> /\ source = <<"Platen">>) => FallbackWarned)
    /\ [](FallbackWarned =>
             /\ args.source = <<"ADF">>
             /\ ~SimplexAvailable
             /\ FlatbedAvailable
             /\ source = <<"Platen">>)
    /\ [][(requests'.posts > requests.posts
              /\ args.source = <<"ADF">> /\ source = <<"Platen">>) =>
             (FallbackWarned /\ requests.posts = Len(stdout) - 1)]_vars

C15_Witness ==
    /\ FallbackWarned
    /\ args.source = <<"ADF">>
    /\ source = <<"Platen">>
    /\ DuplexAvailable
    /\ requests.posts = 2
    /\ pc = "post"

\* A POST to /ScanJobs was answered with success.
JobCreated == requests.posts > 0 /\ ~HttpError(device.postStatus)

\* C16: the GET of /ScannerCapabilities precedes every POST to /ScanJobs; a
\* GET of NextDocument is made only after a POST has succeeded and only
\* against the location that POST returned; once a POST has succeeded no
\* further POST is made.
C16_StagesInOrder ==
    /\ [](requests.posts > 0 =>
             /\ requests.capGets = 1
             /\ scan_caps # NoCaps
             /\ requests.postUrls = {args.url \o <<"/ScanJobs">>})
    /\ [](requests.gets > 0 =>
             /\ JobCreated
             /\ device.location \in Locations
             /\ requests.getUrls = {device.location \o <<"/NextDocument">>})
    /\ [][requests'.posts > requests.posts =>
             (requests.capGets = 1 /\ ~JobCreated /\ requests.gets = 0)]_vars
    /\ [][requests'.gets > requests.gets => JobCreated]_vars
    /\ [][requests'.capGets > requests.capGets =>
             (requests.posts = 0 /\ requests.gets = 0)]_vars

C16_Witness ==
    /\ requests.capGets = 1
    /\ requests.posts = 3
    /\ requests.gets = 2
    /\ JobCreated
    /\ requests.getUrls = {<<"http://brother/eSCL/ScanJobs/2", "/NextDocument">>}

\* A GET of NextDocument is made in this step, answered with success
GetSucceeds ==
    requests'.gets > requests.gets /\ ~HttpError(device'.getStatus)

\* A GET of NextDocument is made in this step, answered with an error status
GetFails ==
    requests'.gets > requests.gets /\ HttpError(device'.getStatus)

\* C17: with multifile true the fetch loop ends as soon as the device answers
\* a GET of NextDocument with a status that is not success, 404 or any other,
\* and the run then terminates; the client itself sets no limit to the
\* number of pages: every GET answered with success writes the next numbered
\* file and leaves the loop running, whatever the number of pages so far.
C17_MultiPageEndsOnlyOnDeviceError ==
    /\ [][(multifile /\ GetFails) =>
             (pc' = "done" /\ files' = files /\ ~(ENABLED Next)')]_vars
    /\ [][(multifile /\ GetSucceeds) =>
             /\ pc' = "fetch"
             /\ fcount' = fcount + 1
             /\ files' = Append(files, [name |-> NumberedName(fcount),
                                         page |-> device'.pages])]_vars
    /\ []((multifile /\ pc = "fetch") => fcount = Len(files) + 1)
    /\ []((multifile /\ pc = "fetch" /\ CanConcat(result)
              /\ device.pages < MaxPages) => ENABLED FetchOk)

C17_Witness ==
    /\ multifile
    /\ Terminated
    /\ requests.gets = MaxPages + 1
    /\ Len(files) = MaxPages
    /\ device.getStatus = 503

\* C18: with multifile false at most one GET of NextDocument is made and at
\* most one file is written, whatever the device answers; when that GET is
\* answered with 404 the run ends normally with exit status 0 and no file.
C18_SingleDocumentMakesOneGet ==
    /\ [](~multifile => (requests.gets <= 1 /\ Len(files) <= 1))
    /\ [][(~multifile /\ requests'.gets > requests.gets) =>
             (requests.gets = 0 /\ files = <<>> /\ ~(ENABLED Next)')]_vars
    /\ []((~multifile /\ requests.gets > 0 /\ device.getStatus = 404) =>
             /\ Terminated
             /\ raised = "none"
             /\ exitStatus = {0}
             /\ requests.gets = 1
             /\ files = <<>>)

C18_Witness ==
    /\ ~multifile
    /\ requests.gets = 1
    /\ device.getStatus = 404
    /\ files = <<>>
    /\ exitStatus = {0}
    /\ source = <<"Feeder">>

(***************************************************************************)
(* Properties of the duplex request.                                       *)
(***************************************************************************)
\* The job sent for the feeder, as it depends on resolution and format only
FeederJob(resolution, format) ==
    build_scansettings_xml(<<"Feeder">>, resolution, <<"application/">> \o format,
                           <<"RGB24">>, TRUE)

\* The request was resolved to the feeder, duplex or simplex
ResolvedDuplex == args.source = <<"DuplexADF">> /\ duplex
ResolvedSimplex == args.source = <<"ADF">> /\ adf

\* C19: the job posted for a resolved DuplexADF request and the one posted
\* for a resolved ADF request using the feeder are the same function of
\* resolution and format, with input source Feeder and no piece that tells
\* duplex from simplex; and so is the multifile flag.
C19_DuplexNotConveyed ==
    ((ResolvedDuplex \/ ResolvedSimplex) /\ post_data # Unset) =>
        /\ source = <<"Feeder">>
        /\ post_data = FeederJob(args.resolution, args.format)
        /\ multifile = (args.format # Pdf)
        /\ requests.postBodies \subseteq {FeederJob(args.resolution, args.format)}
        /\ \A i \in 1..Len(post_data) :
              post_data[i] \notin {"Duplex", "DuplexADF", "true", "false"}

C19_Witness ==
    /\ ResolvedDuplex
    /\ SimplexAvailable
    /\ requests.posts = 1
    /\ requests.postBodies = {FeederJob(<<"600">>, <<"j", "p", "g">>)}
    /\ multifile

\* The second line printed when DuplexADF is refused names the word
Names(word) ==
    /\ Len(stdout) >= 2
    /\ \E i \in 1..Len(stdout[2]) : stdout[2][i] = word

\* C20: when DuplexADF is requested and feeder-duplex is not available, the
\* line printed after 'only have:' names ADF whenever feeder-simplex is
\* available and Flatbed whenever flatbed is available.
C20_OnlyHaveListsTheSources ==
    (stdout # <<>> /\ stdout[1] = MsgNoDuplex) =>
        /\ args.source = <<"DuplexADF">>
        /\ ~DuplexAvailable
        /\ Len(stdout) = 2
        /\ (SimplexAvailable => Names("ADF"))
        /\ (FlatbedAvailable => Names("Flatbed"))

====
